---- MODULE Spec2Model ----
(***************************************************************************)
(* Model of the superhuman-newsletter MCP server (src/src/index.ts).       *)
(*                                                                         *)
(* Text is modelled as a sequence of string tokens, so that string         *)
(* concatenation, template literals and slicing are sequence operations.   *)
(* The empty string is << >>; JavaScript's null/undefined is NULL.          *)
(*                                                                         *)
(* Spec        : one invocation of either tool (listing discovery, the     *)
(*               per-post loop, the response).                             *)
(* SpecExtract : the metadata part of scrapePostContent and                *)
(*               scrapeCodePostContent applied to one fetched post page.   *)
(***************************************************************************)
EXTENDS Naturals, Sequences, FiniteSets

VARIABLES
    tool,       \* which tool handler runs: "superhuman" or "code"
    count,      \* the validated count argument
    pc,         \* position of the handler
    page,       \* collectListings: let page
    all,        \* collectListings: const all
    batch,      \* collectListings: const batch / scrapeCodeListings result
    listings,   \* handler: const listings / const target
    i,          \* handler: loop index of the per-post loop
    posts,      \* handler: const posts
    response,   \* value returned by the handler, NULL while running
    log,        \* fetchHtml and sleep calls performed so far, in order
    xin,        \* SpecExtract: the (site, listing, page) being extracted
    xout        \* SpecExtract: the PostContent returned, NULL before

vars == <<tool, count, pc, page, all, batch, listings, i, posts, response,
          log, xin, xout>>

pipeVars == <<tool, count, pc, page, all, batch, listings, i, posts,
              response, log>>

\* ---------------------------------------------------------------- bounds
MaxCount == 3        \* largest count argument explored
MaxAnchors == 2      \* most post anchors on one listing page
MaxBlocks == 2       \* most ld+json script blocks on one post page
MaxNodes == 2        \* most top-level elements in a content region

\* ------------------------------------------------------------- constants
NULL == <<"\\null">>

BASE_URL == <<"https://www.superhuman.ai">>
CODE_BASE_URL == <<"https://codenewsletter.ai">>
FETCH_DELAY_MS == 300
DEFAULT_AUTHOR == <<"Zain Kahn">>
CODE_AUTHOR == <<"The Code team">>

Tools == {"superhuman", "code"}

BaseUrl(t) == IF t = "superhuman" THEN BASE_URL ELSE CODE_BASE_URL

SiteAuthor(t) == IF t = "superhuman" THEN DEFAULT_AUTHOR ELSE CODE_AUTHOR

\* JavaScript truthiness of a string-or-undefined value
Truthy(v) == v # NULL /\ v # << >>

\* a ?? b
Coalesce(a, b) == IF a # NULL THEN a ELSE b

\* ---------------------------------------------------------------- inputs
Slugs == {"a", "top-ai"}

\* href attribute values matched by a[href^="/p/"]
Hrefs == {<<"/p/", s>> : s \in Slugs}

CardTitles == {NULL, <<"A">>}
CardDates == {<<"Feb 21, 2026">>}

\* one post anchor with what its card (or the anchor itself) contains
Anchors == [href : Hrefs, heading : CardTitles, alt : {NULL}, span : CardDates]

RECURSIVE SeqsUpTo(_, _)
SeqsUpTo(S, n) ==
    IF n = 0 THEN {<< >>}
    ELSE LET shorter == SeqsUpTo(S, n - 1)
         IN  shorter \cup {Append(s, x) : s \in {q \in shorter : Len(q) = n - 1}, x \in S}

\* the anchors of a listing page, in document order
ListingPages == SeqsUpTo(Anchors, MaxAnchors)

\* String(n) for the small numbers that are interpolated into text
Str(n) == <<"0", "1", "2", "3", "4", "5", "6", "7", "8", "9">>[n + 1]

\* failures fetch() can produce: a non-ok status or a rejected promise

HttpError(url) == <<"HTTP ", "500", " fetching ">> \o url
TransportError == <<"fetch failed">>

FetchErrors(url) == {HttpError(url), TransportError}

\* ------------------------------------------------- listing extraction
\* href.slice(3): strip the leading "/p/"
Slug(href) == Tail(href)

\* `${BASE_URL}${href}`
PostUrl(t, href) == BaseUrl(t) \o href

ReplaceHyphens(tok) == IF tok = "top-ai" THEN "top ai" ELSE tok

\* slug.replace(/-/g, " ")
SlugTitle(slug) == [k \in 1..Len(slug) |-> ReplaceHyphens(slug[k])]

\* title of a card: heading ?? img alt ?? slug with spaces (the Code site
\* reads only the h3 inside the anchor)
CardTitle(t, a) ==
    IF t = "superhuman"
    THEN Coalesce(a.heading, Coalesce(a.alt, SlugTitle(Slug(a.href))))
    ELSE Coalesce(a.heading, SlugTitle(Slug(a.href)))

MakeListing(t, a) ==
    [title |-> CardTitle(t, a), date |-> a.span,
     url |-> PostUrl(t, a.href), slug |-> Slug(a.href)]

RECURSIVE ScrapeAnchors(_, _, _, _)
ScrapeAnchors(t, anchors, seen, acc) ==
    IF anchors = << >> THEN acc
    ELSE LET a == Head(anchors)
         IN  IF a.href \in seen
             THEN ScrapeAnchors(t, Tail(anchors), seen, acc)
             ELSE ScrapeAnchors(t, Tail(anchors), seen \cup {a.href},
                                Append(acc, MakeListing(t, a)))

\* the listings of one fetched page: one per href, first occurrence wins
ScrapePostListings(anchors) == ScrapeAnchors("superhuman", anchors, {}, << >>)

ScrapeCodeListings(anchors) == ScrapeAnchors("code", anchors, {}, << >>)

\* mutant: the page number is ignored, every fetch asks for the site root
ListingUrlRootOnly(t, p) == BaseUrl(t)

\* page === 1 ? BASE_URL : `${BASE_URL}/archive?page=${page}`
ListingUrl(t, p) ==
    IF t = "code" THEN CODE_BASE_URL \o <<"/archive">>
    ELSE IF p = 1 THEN BASE_URL
    ELSE BASE_URL \o <<"/archive?page=", Str(p)>>

\* mutant: the result is not cut to the requested count
SliceNothing(s, n) == s

\* Array.prototype.slice(0, n)
Slice(s, n) == SubSeq(s, 1, IF Len(s) < n THEN Len(s) ELSE n)

\* ---------------------------------------------------------- post pages
HeadlineValues == {NULL, << >>, <<"A">>, <<"B">>}
DateValues == {NULL, <<"2026-02-21">>, <<"2026-03-01">>}
DescriptionValues == {NULL, <<"D1">>, <<"D2">>}
ImageValues == {NULL, <<"img1">>, <<"img2">>}
AuthorValues == {NULL, << >>, <<"Ann">>}
OgTitleValues == {NULL, << >>, <<"A">>, <<"C">>}
H1Values == {NULL, <<"H">>}

\* a block that carries every field
FullBlock(h, d, s, im, a) ==
    [parses |-> TRUE, headline |-> h, datePublished |-> d, description |-> s,
     imageUrl |-> im, authorName |-> a]

\* number of properties a parsed block carries
FieldCount(b) ==
    Cardinality({f \in {"headline", "datePublished", "description",
                        "imageUrl", "authorName"} : b[f] # NULL})

\* one script[type="application/ld+json"]: parses says whether JSON.parse
\* and the property reads complete without throwing.  The blocks explored
\* carry at most one property, or all of them.
ParsedBlocks ==
    {b \in [parses : {TRUE}, headline : HeadlineValues,
            datePublished : DateValues, description : DescriptionValues,
            imageUrl : ImageValues, authorName : AuthorValues] :
        \/ FieldCount(b) <= 1
        \/ b = FullBlock(<<"A">>, <<"2026-02-21">>, <<"D1">>, <<"img1">>, <<"Ann">>)
        \/ b = FullBlock(<<"B">>, <<"2026-03-01">>, <<"D2">>, <<"img2">>, <<"Ann">>)}

MalformedBlock ==
    [parses |-> FALSE, headline |-> NULL, datePublished |-> NULL,
     description |-> NULL, imageUrl |-> NULL, authorName |-> NULL]

Blocks == ParsedBlocks \cup {MalformedBlock}

\* ------------------------------------------------------ content region
\* The content region (#content-blocks ?? .rendered-post ?? main ?? body) is
\* a sequence of elements; an element has a tag, a class attribute, its own
\* text, the anchors it contains and, for a div, child elements.
Leaf(tag, class, text, links) ==
    [tag |-> tag, class |-> class, text |-> text, links |-> links,
     children |-> << >>]

Div(children) ==
    [tag |-> "div", class |-> "", text |-> << >>, links |-> << >>,
     children |-> children]

DefaultContent == <<Leaf("p", "", <<"body">>, << >>)>>

PlainText == <<"Real story">>
SponsorTexts == {<<"Presented by ", "Acme Corp">>, <<"SPONSORED BY ", "Acme">>}

\* what the /i flag does to the tokens that occur
LowerCase(tok) ==
    IF tok = "Presented by " THEN "presented by "
    ELSE IF tok = "SPONSORED BY " THEN "sponsored by "
    ELSE IF tok = "Advertisement" THEN "advertisement"
    ELSE tok

\* SPONSOR_PATTERNS.some((p) => p.test(text))
SPONSOR_PATTERNS == {"presented by ", "sponsored by ", "advertisement"}

MatchesSponsor(text) ==
    \E k \in 1..Len(text) : LowerCase(text[k]) \in SPONSOR_PATTERNS

RECURSIVE LinkTextOf(_)
LinkTextOf(links) ==
    IF links = << >> THEN << >>
    ELSE Head(links).text \o LinkTextOf(Tail(links))

\* el.text: the text of the element and of everything inside it
RECURSIVE NodeText(_)
RECURSIVE NodesText(_)
NodeText(n) == n.text \o LinkTextOf(n.links) \o NodesText(n.children)

NodesText(nodes) ==
    IF nodes = << >> THEN << >>
    ELSE NodeText(Head(nodes)) \o NodesText(Tail(nodes))

\* substrings of a class attribute that the [class*=...] selectors look for
ClassParts(class) ==
    IF class = "share-buttons" THEN {"share-buttons", "share"} ELSE {class}

NoiseTags ==
    {"script", "style", "noscript", "nav", "header", "footer", "form", "button"}

NoiseClassParts(t) ==
    IF t = "superhuman"
    THEN {"subscribe", "share", "follow", "feedback", "poll", "advertisement"}
    ELSE {"subscribe", "feedback", "advertisement"}

IsNoise(t, n) ==
    \/ n.tag \in NoiseTags
    \/ ClassParts(n.class) \cap NoiseClassParts(t) # {}

\* for (const sel of [...]) for (const el of contentEl.querySelectorAll(sel)) el.remove()
RECURSIVE StripNoise(_, _)
StripNoise(t, nodes) ==
    IF nodes = << >> THEN << >>
    ELSE LET n == Head(nodes)
         IN  IF IsNoise(t, n) THEN StripNoise(t, Tail(nodes))
             ELSE <<[n EXCEPT !.children = StripNoise(t, n.children)]>>
                  \o StripNoise(t, Tail(nodes))

\* "h1,h2,h3,h4,p,div" for Superhuman, "h1,h2,h3,h4,h5,p" for The Code
SponsorSelector(t) ==
    IF t = "superhuman" THEN {"h1", "h2", "h3", "h4", "p", "div"}
    ELSE {"h1", "h2", "h3", "h4", "h5", "p"}

IsSponsorElement(t, n) ==
    n.tag \in SponsorSelector(t) /\ MatchesSponsor(NodeText(n))

\* the sponsor loop: el.remove() for every selected element whose text matches
RECURSIVE StripSponsors(_, _)
StripSponsors(t, nodes) ==
    IF nodes = << >> THEN << >>
    ELSE LET n == Head(nodes)
         IN  IF IsSponsorElement(t, n) THEN StripSponsors(t, Tail(nodes))
             ELSE <<[n EXCEPT !.children = StripSponsors(t, n.children)]>>
                  \o StripSponsors(t, Tail(nodes))

\* the content region after both removal loops
CleanContent(t, nodes) == StripSponsors(t, StripNoise(t, nodes))

\* atx heading marker of turndown
HeadingPrefix(tag) ==
    IF tag = "h1" THEN <<"# ">>
    ELSE IF tag = "h2" THEN <<"## ">>
    ELSE IF tag = "h3" THEN <<"### ">>
    ELSE IF tag = "h4" THEN <<"#### ">>
    ELSE IF tag = "h5" THEN <<"##### ">>
    ELSE << >>

\* turndown of the anchors of an element: [text](href); an anchor without
\* text is dropped (rule emptyLinks), one without href is plain text
RECURSIVE LinksMarkdown(_)
LinksMarkdown(links) ==
    IF links = << >> THEN << >>
    ELSE LET a == Head(links)
         IN  (IF a.text = << >> THEN << >>
              ELSE IF a.href = << >> THEN a.text
              ELSE <<" [">> \o a.text \o <<"](">> \o a.href \o <<")">>)
             \o LinksMarkdown(Tail(links))

\* the markdown blocks of a sequence of elements, in document order
RECURSIVE MarkdownBlocks(_)
MarkdownBlocks(nodes) ==
    IF nodes = << >> THEN << >>
    ELSE LET n == Head(nodes)
         IN  (IF n.tag = "div" THEN MarkdownBlocks(n.children)
              ELSE <<HeadingPrefix(n.tag) \o n.text \o LinksMarkdown(n.links)>>)
             \o MarkdownBlocks(Tail(nodes))

RECURSIVE JoinBlocks(_)
JoinBlocks(blocks) ==
    IF blocks = << >> THEN << >>
    ELSE IF Len(blocks) = 1 THEN Head(blocks)
    ELSE Head(blocks) \o <<"\n\n">> \o JoinBlocks(Tail(blocks))

\* turndown.turndown(contentEl.innerHTML).replace(/\n{3,}/g, "\n\n").trim()
Markdown(nodes) == JoinBlocks(MarkdownBlocks(nodes))

\* contentEl.querySelectorAll("a[href]") in document order
RECURSIVE AnchorsOf(_)
AnchorsOf(nodes) ==
    IF nodes = << >> THEN << >>
    ELSE Head(nodes).links \o AnchorsOf(Head(nodes).children)
         \o AnchorsOf(Tail(nodes))

\* substrings of an href token that String.includes is asked about
HrefParts(tok) ==
    IF tok = "www.superhuman.ai" THEN {tok, "superhuman.ai"}
    ELSE IF tok = "news.beehiiv.com" THEN {tok, "beehiiv.com"}
    ELSE {tok}

\* href.includes(needle)
Includes(href, needle) == \E k \in 1..Len(href) : needle \in HrefParts(href[k])

SiteDomain(t) == IF t = "superhuman" THEN "superhuman.ai" ELSE "codenewsletter.ai"

\* the filter of the link loop, without the seenLinks test
LinkQualifies(t, a) ==
    /\ a.href # << >>
    /\ a.href[1] # "#"
    /\ ~Includes(a.href, SiteDomain(t))
    /\ ~Includes(a.href, "beehiiv.com")
    /\ ~Includes(a.href, "twitter.com/intent")
    /\ ~Includes(a.href, "facebook.com/sharer")
    /\ ~Includes(a.href, "linkedin.com/sharing")
    /\ a.text # << >>

\* mutant: the seenLinks test is missing
NeverSeen(href, seen) == FALSE

\* seenLinks.has(href)
AlreadySeen(href, seen) == href \in seen

\* the link loop: seenLinks.add(href); externalLinks.push({ text, url: href })
RECURSIVE CollectLinks(_, _, _, _)
CollectLinks(t, anchors, seen, acc) ==
    IF anchors = << >> THEN acc
    ELSE LET a == Head(anchors)
         IN  IF LinkQualifies(t, a) /\ ~AlreadySeen(a.href, seen)
             THEN CollectLinks(t, Tail(anchors), seen \cup {a.href},
                               Append(acc, [text |-> a.text, url |-> a.href]))
             ELSE CollectLinks(t, Tail(anchors), seen, acc)

ExternalLinks(t, nodes) == CollectLinks(t, AnchorsOf(nodes), {}, << >>)

PostPages ==
    [ld : SeqsUpTo(Blocks, MaxBlocks), ogTitle : OgTitleValues,
     h1 : H1Values, ogDescription : {NULL}, ogImage : {NULL},
     content : {DefaultContent}]

\* new Date(d).toLocaleDateString("en-US", {year, month: "long", day})
LongDate(d) == <<"long date of ">> \o d

\* the mutable metadata locals of scrapePostContent before the ld+json loop
SeedMeta(t, listing) ==
    [title |-> listing.title, datePublished |-> listing.date,
     description |-> << >>, featuredImage |-> << >>, author |-> SiteAuthor(t)]

\* one iteration of the ld+json loop (try { ... } catch { skip })
ApplyBlock(t, m, b) ==
    IF ~b.parses THEN m
    ELSE [title |-> IF Truthy(b.headline) THEN b.headline ELSE m.title,
          datePublished |-> IF Truthy(b.datePublished)
                            THEN LongDate(b.datePublished)
                            ELSE m.datePublished,
          description |-> IF Truthy(b.description) THEN b.description
                          ELSE m.description,
          featuredImage |-> IF Truthy(b.imageUrl) THEN b.imageUrl
                            ELSE m.featuredImage,
          author |-> IF t = "superhuman" /\ Truthy(b.authorName)
                     THEN b.authorName ELSE m.author]

RECURSIVE ApplyBlocks(_, _, _)
ApplyBlocks(t, m, blocks) ==
    IF blocks = << >> THEN m
    ELSE ApplyBlocks(t, ApplyBlock(t, m, Head(blocks)), Tail(blocks))

\* if (!title || title === listing.title) title = og:title ?? h1 ?? title
FallbackTitle(title, listing, html) ==
    IF ~Truthy(title) \/ title = listing.title
    THEN Coalesce(html.ogTitle, Coalesce(html.h1, title))
    ELSE title

\* if (!x) x = meta content ?? ""
FallbackMeta(value, og) ==
    IF ~Truthy(value) THEN Coalesce(og, << >>) ELSE value

\* scrapePostContent / scrapeCodePostContent on a page that was fetched
ScrapePostContent(t, listing, html) ==
    LET m == ApplyBlocks(t, SeedMeta(t, listing), html.ld)
        image == FallbackMeta(m.featuredImage, html.ogImage)
    IN  [title |-> FallbackTitle(m.title, listing, html),
         date |-> m.datePublished,
         url |-> listing.url,
         slug |-> listing.slug,
         author |-> m.author,
         subtitle |-> FallbackMeta(m.description, html.ogDescription),
         content_markdown |-> Markdown(CleanContent(t, html.content)),
         external_links |-> ExternalLinks(t, CleanContent(t, html.content)),
         featured_image |-> IF Truthy(image) THEN image ELSE NULL]

\* the catch branch of the per-post loop
Placeholder(t, listing, message) ==
    [title |-> listing.title,
     date |-> listing.date,
     url |-> listing.url,
     slug |-> listing.slug,
     author |-> SiteAuthor(t),
     subtitle |-> << >>,
     content_markdown |-> <<"_Could not fetch content: ">> \o message \o <<"_">>,
     external_links |-> << >>,
     featured_image |-> NULL]

\* --------------------------------------------------------------- digest
SiteName(t) == IF t = "superhuman" THEN <<"Superhuman AI Newsletter">>
               ELSE <<"The Code Newsletter">>

\* "\n\n" + 80 rule characters + "\n\n"
DIVIDER == "\n\n----\n\n"

\* - [text](url) lines of the trailing link list
RECURSIVE LinkLines(_)
LinkLines(links) ==
    IF links = << >> THEN << >>
    ELSE <<"\n- [">> \o Head(links).text \o <<"](">> \o Head(links).url
         \o <<")">> \o LinkLines(Tail(links))

\* one numbered section of formatDigest / formatCodeDigest
Section(ps, k) ==
    <<"## [Post ", Str(k), "/", Str(Len(ps)), "] ">> \o ps[k].title
    \o <<"\n", "**Date:** ">> \o ps[k].date \o <<"  |  **Author:** ">>
    \o ps[k].author
    \o <<"\n", "**Source:** <">> \o ps[k].url \o <<">">>
    \o (IF Truthy(ps[k].subtitle)
        THEN <<"\n", "**Summary:** ">> \o ps[k].subtitle ELSE << >>)
    \o (IF Truthy(ps[k].featured_image)
        THEN <<"\n", "![Featured Image](">> \o ps[k].featured_image \o <<")">>
        ELSE << >>)
    \o <<"\n\n">> \o ps[k].content_markdown
    \o (IF Len(ps[k].external_links) > 0
        THEN <<"\n\n**Links referenced in this post:**">>
             \o LinkLines(ps[k].external_links)
        ELSE << >>)

\* sections.join(divider)
RECURSIVE JoinSections(_, _)
JoinSections(ps, k) ==
    IF k > Len(ps) THEN << >>
    ELSE (IF k > 1 THEN <<DIVIDER>> ELSE << >>) \o Section(ps, k)
         \o JoinSections(ps, k + 1)

\* header + divider + sections.join(divider)
FormatDigest(t, ps) ==
    <<"# ">> \o SiteName(t) \o <<" - ", Str(Len(ps)), " Most Recent Posts",
      "\n", "Compiled: ", "today">>
    \o <<DIVIDER>> \o JoinSections(ps, 1)

\* ------------------------------------------------------------ responses
NoResponse == [text |-> NULL, isError |-> FALSE]

\* return { content: [{ type: "text", text: formatDigest(posts) }] }
DigestResponse(t, ps) == [text |-> FormatDigest(t, ps), isError |-> FALSE]

\* the "No posts found" return of both handlers
NoPostsResponse(t) ==
    [text |-> <<"No posts found on ">>
              \o (IF t = "superhuman" THEN <<"superhuman.ai">>
                  ELSE <<"codenewsletter.ai">>)
              \o <<". The site may be temporarily unavailable.">>,
     isError |-> FALSE]

\* mutant: the outer catch forgets to mark the response as an error
ErrorResponseUnmarked(message) ==
    [text |-> <<"Error: ">> \o message, isError |-> FALSE]

\* the outer catch of both handlers
ErrorResponse(message) ==
    [text |-> <<"Error: ">> \o message, isError |-> TRUE]

\* ------------------------------------------------------ handler control
\* while (all.length < count)
WhileCond(a, c) == Len(a) < c

\* if (batch.length === 0) break, and after the push
\* if (all.length >= count) break
LoopBreak(b, a, c) == Len(b) = 0 \/ Len(a) >= c

\* mutant: a single discovered post is treated like none
NoPostsFoundOffByOne(ls) == Len(ls) <= 1

\* if (listings.length === 0) / if (target.length === 0)
NoPostsFound(ls) == Len(ls) = 0

\* mutant: no delay between post fetches
DelayNever(k, n) == FALSE

\* mutant: the delay also runs after the last post
DelayAfterEveryPost(k, n) == k < n

\* if (i < listings.length - 1) await sleep(FETCH_DELAY_MS)
DelayAfterPost(k, n) == k < n - 1

\* posts.push(content) in the try branch
PushContent(ps, content) == Append(ps, content)

\* mutant: the catch branch drops the failed post
CatchPostDrops(t, ps, listing, message) == ps

\* posts.push({...listings[i], ...}) in the catch branch
CatchPost(t, ps, listing, message) == Append(ps, Placeholder(t, listing, message))

\* entries of the call log
ListingEvent(url, ok, n) == [t |-> "L", url |-> url, ok |-> ok, n |-> n]
PostEvent(url, ok) == [t |-> "P", url |-> url, ok |-> ok, n |-> 0]
SleepEvent == [t |-> "S", url |-> << >>, ok |-> TRUE, n |-> FETCH_DELAY_MS]

\* post pages served to the tool handlers
SamplePages ==
    {h \in PostPages : /\ h.ogTitle = NULL
                       /\ h.h1 = NULL
                       /\ \/ h.ld = << >>
                          \/ /\ Len(h.ld) = 1
                             /\ h.ld[1].parses
                             /\ h.ld[1].headline = <<"B">>
                             /\ FieldCount(h.ld[1]) = 1}

\* ------------------------------------------------------------- actions
InitPipeline ==
    /\ tool \in Tools
    /\ count \in 1..MaxCount
    /\ pc = "listing"
    /\ page = 1
    /\ all = << >>
    /\ batch = << >>
    /\ listings = << >>
    /\ i = 0
    /\ posts = << >>
    /\ response = NoResponse
    /\ log = << >>

Init ==
    /\ InitPipeline
    /\ xin = << >>
    /\ xout = << >>

\* collectListings returned (or the Code archive was sliced): the handler
\* either reports that nothing was found or enters the per-post loop
ReturnListings(ls) ==
    /\ listings' = ls
    /\ i' = 0
    /\ posts' = << >>
    /\ IF NoPostsFound(ls)
       THEN /\ response' = NoPostsResponse(tool)
            /\ pc' = "done"
       ELSE /\ response' = response
            /\ pc' = "post"

\* one pass of the while loop of collectListings up to its next await
FetchListingPage ==
    /\ pc = "listing"
    /\ tool = "superhuman"
    /\ \E anchors \in ListingPages :
          LET b == ScrapePostListings(anchors)
              a == IF Len(b) = 0 THEN all ELSE all \o b
          IN  /\ batch' = b
              /\ all' = a
              /\ log' = Append(log, ListingEvent(ListingUrl(tool, page), TRUE, Len(b)))
              /\ IF LoopBreak(b, a, count)
                 THEN /\ page' = page
                      /\ ReturnListings(Slice(a, count))
                 ELSE /\ page' = page + 1
                      /\ pc' = "pageDelay"
                      /\ UNCHANGED <<listings, i, posts, response>>
    /\ UNCHANGED <<tool, count, xin, xout>>

\* await sleep(FETCH_DELAY_MS) at the end of the while body
PageDelay ==
    /\ pc = "pageDelay"
    /\ log' = Append(log, SleepEvent)
    /\ IF WhileCond(all, count)
       THEN /\ pc' = "listing"
            /\ UNCHANGED <<listings, i, posts, response>>
       ELSE ReturnListings(Slice(all, count))
    /\ UNCHANGED <<tool, count, page, all, batch, xin, xout>>

\* scrapeCodeListings() followed by listings.slice(0, count)
FetchCodeListing ==
    /\ pc = "listing"
    /\ tool = "code"
    /\ \E anchors \in ListingPages :
          LET b == ScrapeCodeListings(anchors)
          IN  /\ batch' = b
              /\ log' = Append(log, ListingEvent(ListingUrl(tool, page), TRUE, Len(b)))
              /\ ReturnListings(Slice(b, count))
    /\ UNCHANGED <<tool, count, page, all, xin, xout>>

\* fetchHtml of a listing page throws: nothing catches it before the
\* handler's outer catch
FetchListingFails ==
    /\ pc = "listing"
    /\ \E message \in FetchErrors(ListingUrl(tool, page)) :
          /\ response' = ErrorResponse(message)
          /\ log' = Append(log, ListingEvent(ListingUrl(tool, page), FALSE, 0))
    /\ pc' = "done"
    /\ UNCHANGED <<tool, count, page, all, batch, listings, i, posts, xin, xout>>

\* the end of one iteration of the per-post loop: i++ and the loop test
LoopNext(ps) ==
    /\ i' = i + 1
    /\ IF i + 1 < Len(listings)
       THEN /\ pc' = "post"
            /\ response' = response
       ELSE /\ pc' = "done"
            /\ response' = DigestResponse(tool, ps)

\* after the try/catch of one iteration
AfterPost(ps) ==
    /\ posts' = ps
    /\ IF DelayAfterPost(i, Len(listings))
       THEN /\ pc' = "postDelay"
            /\ UNCHANGED <<i, response>>
       ELSE LoopNext(ps)

\* scrapePostContent(listings[i]) resolves
FetchPostOk ==
    /\ pc = "post"
    /\ \E html \in SamplePages :
          AfterPost(PushContent(posts, ScrapePostContent(tool, listings[i + 1], html)))
    /\ log' = Append(log, PostEvent(listings[i + 1].url, TRUE))
    /\ UNCHANGED <<tool, count, page, all, batch, listings, xin, xout>>

\* scrapePostContent(listings[i]) throws
FetchPostFails ==
    /\ pc = "post"
    /\ \E message \in FetchErrors(listings[i + 1].url) :
          AfterPost(CatchPost(tool, posts, listings[i + 1], message))
    /\ log' = Append(log, PostEvent(listings[i + 1].url, FALSE))
    /\ UNCHANGED <<tool, count, page, all, batch, listings, xin, xout>>

\* await sleep(FETCH_DELAY_MS) inside the per-post loop
PostDelay ==
    /\ pc = "postDelay"
    /\ log' = Append(log, SleepEvent)
    /\ LoopNext(posts)
    /\ UNCHANGED <<tool, count, page, all, batch, listings, posts, xin, xout>>

Next ==
    \/ FetchListingPage
    \/ PageDelay
    \/ FetchCodeListing
    \/ FetchListingFails
    \/ FetchPostOk
    \/ FetchPostFails
    \/ PostDelay

Spec == Init /\ [][Next]_vars

TypeOK ==
    /\ tool \in Tools
    /\ count \in 1..MaxCount
    /\ pc \in {"listing", "pageDelay", "post", "postDelay", "done",
              "extract", "extracted"}
    /\ Len(posts) <= Len(listings)

\* ------------------------------------------- extraction of one post page
\* the listings a listing page can produce for site t
ExtractListings(t) == {ScrapeAnchors(t, <<a>>, {}, << >>)[1] : a \in Anchors}

InitExtract ==
    /\ tool \in Tools
    /\ count = 1
    /\ pc = "extract"
    /\ page = 1
    /\ all = << >>
    /\ batch = << >>
    /\ listings = << >>
    /\ i = 0
    /\ posts = << >>
    /\ response = NoResponse
    /\ log = << >>
    /\ xin \in {<<[listing |-> l, html |-> h]>> :
                   l \in ExtractListings(tool), h \in PostPages}
    /\ xout = << >>

\* scrapePostContent(listing) / scrapeCodePostContent(listing) after the
\* page was fetched
Extract ==
    /\ pc = "extract"
    /\ xout' = <<ScrapePostContent(tool, xin[1].listing, xin[1].html)>>
    /\ pc' = "extracted"
    /\ UNCHANGED <<tool, count, page, all, batch, listings, i, posts,
                   response, log, xin>>

NextExtract == Extract

SpecExtract == InitExtract /\ [][NextExtract]_vars

\* ------------------------------------------------- the paginator alone
\* collectListings(count) against an archive whose every page fetch returns
InitCollect ==
    /\ InitPipeline
    /\ tool = "superhuman"
    /\ xin = << >>
    /\ xout = << >>

NextCollect ==
    \/ FetchListingPage
    \/ PageDelay

\* every await of collectListings (a fetch that returns, the timer) resolves
SpecCollect == InitCollect /\ [][NextCollect]_vars /\ WF_vars(NextCollect)

\* ------------------------------------ extraction of the content region
\* a post page that has nothing but the given content region
PageWith(content) ==
    [ld |-> << >>, ogTitle |-> NULL, h1 |-> NULL, ogDescription |-> NULL,
     ogImage |-> NULL, content |-> content]

DefaultListing(t) ==
    MakeListing(t, [href |-> <<"/p/", "a">>, heading |-> NULL, alt |-> NULL,
                    span |-> <<"Feb 21, 2026">>])

\* href and trimmed text of the anchors explored
LinkHrefs ==
    {<< >>,
     <<"#", "section">>,
     <<"https://", "www.superhuman.ai", "/about">>,
     <<"https://", "codenewsletter.ai", "/archive">>,
     <<"/p/", "other-post">>,
     <<"https://", "external.example", "/story">>,
     <<"https://", "other.example", "/">>,
     <<"https://", "twitter.com/intent", "/tweet">>}

LinkTexts == {<< >>, <<"Read more">>, <<"Other">>}

LinkAnchors == [href : LinkHrefs, text : LinkTexts]

\* elements that hold one anchor: a paragraph, or a nav that is stripped
LinkNodes ==
    {Leaf(tag, "", PlainText, <<a>>) : tag \in {"p", "nav"}, a \in LinkAnchors}

InitWith(contents) ==
    /\ tool \in Tools
    /\ count = 1
    /\ pc = "extract"
    /\ page = 1
    /\ all = << >>
    /\ batch = << >>
    /\ listings = << >>
    /\ i = 0
    /\ posts = << >>
    /\ response = NoResponse
    /\ log = << >>
    /\ xin \in {<<[listing |-> DefaultListing(tool), html |-> PageWith(c)]>> :
                   c \in contents}
    /\ xout = << >>

InitLinks == InitWith(SeqsUpTo(LinkNodes, MaxNodes))

SpecLinks == InitLinks /\ [][NextExtract]_vars

\* headings, paragraphs and noise with plain or sponsor text, and divs that
\* enclose one or two headings or paragraphs
SponsorLeaves ==
    {Leaf(tag, "", text, << >>) :
        tag \in {"p", "h2", "h5", "nav"}, text \in {PlainText} \cup SponsorTexts}
    \cup {Leaf("p", "share-buttons", PlainText, << >>)}

DivChildren ==
    {Leaf(tag, "", text, << >>) :
        tag \in {"p", "h2"},
        text \in {PlainText, <<"Presented by ", "Acme Corp">>}}

SponsorNodes ==
    SponsorLeaves \cup {Div(c) : c \in SeqsUpTo(DivChildren, 2) \ {<< >>}}

InitSponsor == InitWith(SeqsUpTo(SponsorNodes, MaxNodes))

SpecSponsor == InitSponsor /\ [][NextExtract]_vars

\* =============================================================== claims
\* ---- observations on the call log and on the response text
IsFetch(e) == e.t \in {"L", "P"}

IsPostEvent(e) == e.t = "P"

IsListingEvent(e) == e.t = "L"

PostEvents == SelectSeq(log, IsPostEvent)

ListingEvents == SelectSeq(log, IsListingEvent)

ListingFetchFailed == \E k \in 1..Len(log) : log[k].t = "L" /\ ~log[k].ok

StartsWith(text, prefix) ==
    /\ Len(text) >= Len(prefix)
    /\ SubSeq(text, 1, Len(prefix)) = prefix

Contains(text, part) ==
    \E j \in 1..(Len(text) + 1) :
        /\ j + Len(part) - 1 <= Len(text)
        /\ SubSeq(text, j, j + Len(part) - 1) = part

IsDigest(r) == ~r.isError /\ StartsWith(r.text, <<"# ">>)

IsErrorResponse(r) == r.isError /\ StartsWith(r.text, <<"Error: ">>)

IsPlaceholder(p) == StartsWith(p.content_markdown, <<"_Could not fetch content: ">>)

\* positions of the dividers of a digest text, and the text of section k
DividerPositions(text) == {j \in 1..Len(text) : text[j] = DIVIDER}

NumSections(text) == Cardinality(DividerPositions(text))

SectionStart(text, k) ==
    CHOOSE j \in DividerPositions(text) :
        Cardinality({d \in DividerPositions(text) : d <= j}) = k

SectionText(text, k) ==
    SubSeq(text, SectionStart(text, k) + 1,
           IF k < NumSections(text) THEN SectionStart(text, k + 1) - 1
           ELSE Len(text))

\* ---- C1
\* C1: after the per-post loop over k >= 1 references, whichever extractions
\* threw, posts has exactly k entries, entry j carries the url and slug of
\* reference j, is real content when extraction j succeeded and otherwise a
\* placeholder whose body is the 'Could not fetch content' message with an
\* empty link list, and the digest has exactly k numbered sections in that
\* order.
C1_PlaceholderGuarantee ==
    (pc = "done" /\ Len(listings) >= 1) =>
        /\ Len(posts) = Len(listings)
        /\ Len(PostEvents) = Len(listings)
        /\ \A k \in 1..Len(listings) :
              /\ posts[k].url = listings[k].url
              /\ posts[k].slug = listings[k].slug
              /\ PostEvents[k].url = listings[k].url
              /\ PostEvents[k].ok => ~IsPlaceholder(posts[k])
              /\ ~PostEvents[k].ok =>
                    /\ \E m \in FetchErrors(listings[k].url) :
                          posts[k].content_markdown =
                              <<"_Could not fetch content: ">> \o m \o <<"_">>
                    /\ posts[k].external_links = << >>
        /\ IsDigest(response)
        /\ NumSections(response.text) = Len(listings)
        /\ \A k \in 1..Len(listings) :
              LET sec == SectionText(response.text, k)
              IN  /\ StartsWith(sec, <<"## [Post ", Str(k), "/",
                                       Str(Len(listings)), "] ">>)
                  /\ Contains(sec, <<"**Source:** <">> \o listings[k].url \o <<">">>)
                  /\ Contains(sec, <<"\n\n">> \o posts[k].content_markdown)

\* reference #2 failed while reference #1 succeeded, and the loop is over
C1_Witness ==
    /\ pc = "done"
    /\ Len(listings) >= 2
    /\ Len(PostEvents) >= 2
    /\ PostEvents[1].ok
    /\ ~PostEvents[2].ok
    /\ IsPlaceholder(posts[2])

\* ---- C2
\* C2: if a listing-page fetch fails in either tool, the invocation ends
\* with a tool-level error response (isError set, text 'Error: ...'), no
\* post page is fetched and no digest is produced.
C2_ListingFailurePropagates ==
    \A k \in 1..Len(log) :
        (log[k].t = "L" /\ ~log[k].ok) =>
            /\ k = Len(log)
            /\ pc = "done"
            /\ IsErrorResponse(response)
            /\ Tail(response.text) \in FetchErrors(log[k].url)
            /\ PostEvents = << >>
            /\ posts = << >>
            /\ ~IsDigest(response)

\* a later archive page failed after page 1 had yielded references
C2_Witness ==
    /\ ListingFetchFailed
    /\ pc = "done"
    /\ Len(all) >= 1
    /\ page >= 2

\* ---- C3
\* C3: every completed invocation of either tool returns either the
\* formatted digest or a response marked as a structured error, also when
\* listing discovery succeeds but yields zero references.
C3_DigestOrError ==
    pc = "done" => (IsDigest(response) \/ response.isError)

\* failing input of C3: a listing page without any post anchor
C3_NoPostsReached ==
    pc = "done" /\ ~ListingFetchFailed /\ Len(listings) = 0

\* ---- C4
\* C4 (as claimed): a top-level error response is returned only when no
\* listing at all could be discovered; whenever the Superhuman tool has
\* discovered at least one reference (e.g. page 1 yielded references and a
\* later archive page fetch fails) the digest is still returned.
C4_ErrorOnlyWithoutListings ==
    (tool = "superhuman" /\ pc = "done" /\ Len(all) >= 1) => IsDigest(response)

\* C4 (amended): the Superhuman tool returns a top-level error response
\* only when a listing-page fetch failed, which includes a later archive
\* page failing after page 1 yielded references; whenever collectListings
\* returned at least one reference the digest is returned, also when every
\* post extraction failed.
C4_ErrorOnlyOnListingFailure ==
    (tool = "superhuman" /\ pc = "done") =>
        /\ response.isError => ListingFetchFailed
        /\ Len(listings) >= 1 => IsDigest(response)

\* every individual post failed and the digest was still returned
C4_Witness ==
    /\ tool = "superhuman"
    /\ pc = "done"
    /\ Len(listings) >= 2
    /\ Len(PostEvents) = Len(listings)
    /\ \A k \in 1..Len(PostEvents) : ~PostEvents[k].ok
    /\ IsDigest(response)

\* ---- C5
\* C5: listing collection (collectListings(count), and the slice of
\* scrapeCodeListings for the Code site) returns at most count references,
\* fewer than count only when the archive ran out, and does not raise an
\* error for 'not enough posts'.
ArchiveRanOut ==
    IF tool = "superhuman" THEN Len(batch) = 0 ELSE Len(batch) < count

C5_AtMostCount ==
    (pc \in {"post", "postDelay", "done"} /\ ~ListingFetchFailed) =>
        /\ Len(listings) <= count
        /\ Len(listings) < count => ArchiveRanOut
        /\ ~response.isError

\* the archive ran out after some references: fewer than count returned
C5_Witness ==
    /\ tool = "superhuman"
    /\ pc = "done"
    /\ Len(listings) >= 1
    /\ Len(listings) < count
    /\ Len(ListingEvents) >= 2
    /\ IsDigest(response)

\* ---- C6
\* C6: the references returned by listing collection have pairwise distinct
\* URLs: an href that appears twice on one page or on two different pages
\* walked by the paginator yields exactly one reference.
C6_DistinctUrls ==
    \A j, k \in 1..Len(listings) :
        j # k => listings[j].url # listings[k].url

\* ---- C7
\* references of the most recent page that were not accumulated before it
NewReferences ==
    LET before == SubSeq(all, 1, Len(all) - Len(batch))
    IN  {k \in 1..Len(batch) :
            \A j \in 1..Len(before) : before[j].url # batch[k].url}

\* C7: the paginator stops at the first page after which the accumulated
\* count has reached the requested count or that page yielded zero new
\* references (references not already accumulated); no further listing page
\* is fetched after that point, and it does not stop before.
C7_StopsAtFirstExhaustedPage ==
    tool = "superhuman" =>
        /\ pc = "pageDelay" => (Len(all) < count /\ NewReferences # {})
        /\ (pc \in {"post", "postDelay", "done"} /\ ~ListingFetchFailed) =>
              (Len(all) >= count \/ NewReferences = {})

\* ---- C8
\* C8 (as claimed): between any two consecutive network fetches of one
\* invocation (listing to listing, last listing to first post, post to post)
\* the delay step is executed exactly once; no two fetches are back to back.
C8_DelayBetweenAllFetches ==
    \A k \in 1..Len(log) :
        /\ (k < Len(log) /\ IsFetch(log[k])) => log[k + 1].t = "S"
        /\ (k < Len(log) /\ log[k].t = "S") => IsFetch(log[k + 1])
        /\ log[k].t = "S" => k > 1

\* C8 (amended): between two consecutive listing-page fetches and between
\* two consecutive post-page fetches the delay step is executed exactly
\* once; the first post page is fetched directly after the last
\* listing-page fetch, with no delay in between.
C8_DelayWithinEachPhase ==
    \A k \in 1..Len(log) :
        /\ k = 1 => log[k].t = "L"
        /\ (k < Len(log) /\ log[k].t = "L") => log[k + 1].t \in {"S", "P"}
        /\ (k < Len(log) /\ log[k].t = "P") => log[k + 1].t = "S"
        /\ log[k].t = "S" => (k > 1 /\ IsFetch(log[k - 1]))
        /\ (k < Len(log) /\ log[k].t = "S") => log[k + 1].t = log[k - 1].t
        /\ log[k].t = "S" => log[k].n = FETCH_DELAY_MS

\* a run with two listing pages, then two posts: L S L P S P
C8_Witness ==
    /\ pc = "done"
    /\ Len(log) >= 6
    /\ log[1].t = "L" /\ log[2].t = "S" /\ log[3].t = "L"
    /\ log[4].t = "P" /\ log[5].t = "S" /\ log[6].t = "P"

\* ---- C9
\* C9: if the first listing page yields at least count unique references,
\* the invocation performs exactly one listing fetch, then exactly count
\* post fetches, one per reference in listing order, without retry or skip
\* even when earlier post fetches fail, with one delay between consecutive
\* post fetches and none after the last.
C9_OneListingThenCountPosts ==
    (pc = "done" /\ Len(log) >= 1 /\ log[1].t = "L" /\ log[1].ok
        /\ log[1].n >= count) =>
        /\ Len(log) = 2 * count
        /\ Len(batch) >= count
        /\ \A k \in 1..count :
              /\ log[2 * k].t = "P"
              /\ log[2 * k].url = batch[k].url
              /\ k < count => log[2 * k + 1].t = "S"
        /\ NumSections(response.text) = count

\* the first of two post fetches failed and the second still happened
C9_Witness ==
    /\ pc = "done"
    /\ count >= 2
    /\ Len(log) >= 4
    /\ log[1].t = "L" /\ log[1].n >= count
    /\ log[2].t = "P" /\ ~log[2].ok
    /\ log[4].t = "P"

\* ---- C10
\* structured-data headlines of the extracted page that are non-empty
Headlines(html) ==
    {html.ld[k].headline : k \in {j \in 1..Len(html.ld) :
        html.ld[j].parses /\ Truthy(html.ld[j].headline)}}

\* C10: the extracted title is the structured-data headline whenever one is
\* present and non-empty, also when it equals the listing title and an
\* og:title differs (the first link of the claimed priority chain headline >
\* og:title > listing title; the claim implies it).
C10_TitlePriority ==
    pc = "extracted" =>
        (Headlines(xin[1].html) # {} => xout[1].title \in Headlines(xin[1].html))

\* failing input of C10: the only headline equals the listing title and the
\* page has an og:title that differs
C10_HeadlineEqualsListingTitle ==
    /\ pc = "extracted"
    /\ Headlines(xin[1].html) = {xin[1].listing.title}
    /\ xin[1].html.ogTitle # NULL
    /\ xin[1].html.ogTitle # xin[1].listing.title
    /\ xout[1].title = xin[1].html.ogTitle

\* ---- C11
\* positions of the blocks that parse and carry a non-empty field f
BlocksWith(ld, f) == {k \in 1..Len(ld) : ld[k].parses /\ Truthy(ld[k][f])}

\* the value of field f in the first block, in document order, that has it
FirstValue(ld, f) ==
    ld[CHOOSE k \in BlocksWith(ld, f) : \A j \in BlocksWith(ld, f) : k <= j][f]

\* C11: with several structured-data blocks, each of title, date, subtitle
\* and featured image is taken from the first block (in document order) that
\* contains that field; a later block with the same field does not override
\* it, and a block that fails to parse changes no field.  (For the title the
\* case of a first headline equal to the listing title is left to C10.)
C11_FirstBlockWins ==
    pc = "extracted" =>
        LET ld == xin[1].html.ld
            out == xout[1]
        IN  /\ (BlocksWith(ld, "headline") # {}
                  /\ FirstValue(ld, "headline") # xin[1].listing.title)
                  => out.title = FirstValue(ld, "headline")
            /\ BlocksWith(ld, "datePublished") # {}
                  => out.date = <<"long date of ">> \o FirstValue(ld, "datePublished")
            /\ BlocksWith(ld, "description") # {}
                  => out.subtitle = FirstValue(ld, "description")
            /\ BlocksWith(ld, "imageUrl") # {}
                  => out.featured_image = FirstValue(ld, "imageUrl")
            /\ BlocksWith(ld, "datePublished") = {}
                  => out.date = xin[1].listing.date

\* failing input of C11: two blocks with different dates
C11_TwoDatesLastWins ==
    /\ pc = "extracted"
    /\ Len(xin[1].html.ld) = 2
    /\ xin[1].html.ld[1].datePublished = <<"2026-02-21">>
    /\ xin[1].html.ld[2].datePublished = <<"2026-03-01">>
    /\ xout[1].date = <<"long date of ", "2026-03-01">>

\* ---- C12
\* non-empty author names provided by the blocks of the page
AuthorNames(ld) == {ld[k].authorName : k \in BlocksWith(ld, "authorName")}

\* C12: for both source sites the author of an extracted PostContent equals
\* the structured data's author.name when a block provides a non-empty one,
\* and equals the site's default author exactly when no block provides it.
C12_AuthorFromStructuredData ==
    pc = "extracted" =>
        LET names == AuthorNames(xin[1].html.ld)
            site == IF tool = "superhuman" THEN <<"Zain Kahn">>
                    ELSE <<"The Code team">>
        IN  /\ names # {} => xout[1].author \in names
            /\ names = {} => xout[1].author = site

\* failing input of C12: a Code post whose structured data names an author
C12_CodeAuthorIgnored ==
    /\ pc = "extracted"
    /\ tool = "code"
    /\ AuthorNames(xin[1].html.ld) = {<<"Ann">>}
    /\ xout[1].author = <<"The Code team">>

\* ---- C13
\* C13: no metadata step replaces a usable value with an empty one: with a
\* non-empty listing title the extracted title is non-empty for every post
\* page, also when the og:title meta tag has an empty content attribute; the
\* h1 is used when og:title gives no usable value.
C13_TitleNeverEmptied ==
    (pc = "extracted" /\ Truthy(xin[1].listing.title)) =>
        /\ Truthy(xout[1].title)
        /\ (BlocksWith(xin[1].html.ld, "headline") = {}
              /\ ~Truthy(xin[1].html.ogTitle) /\ Truthy(xin[1].html.h1))
              => xout[1].title = xin[1].html.h1

\* failing input of C13: no headline, og:title content="", an h1 present
C13_EmptyOgTitle ==
    /\ pc = "extracted"
    /\ BlocksWith(xin[1].html.ld, "headline") = {}
    /\ xin[1].html.ogTitle = << >>
    /\ xin[1].html.h1 = <<"H">>
    /\ xout[1].title = << >>

\* ---- C14
\* the anchors of the cleaned content region of the extracted page
CleanAnchors == AnchorsOf(CleanContent(tool, xin[1].html.content))

\* the href targets the source site itself: its domain, or a site-relative path
TargetsOwnSite(href) ==
    \/ href[1] \in {"/", "/p/"}
    \/ \E k \in 1..Len(href) :
          href[k] \in (IF tool = "superhuman"
                       THEN {"superhuman.ai", "www.superhuman.ai"}
                       ELSE {"codenewsletter.ai"})

IsShareEndpoint(href) ==
    \E k \in 1..Len(href) :
        href[k] \in {"twitter.com/intent", "facebook.com/sharer",
                     "linkedin.com/sharing", "beehiiv.com", "news.beehiiv.com"}

IsOutbound(a) ==
    /\ a.href # << >>
    /\ a.href[1] # "#"
    /\ a.text # << >>
    /\ ~TargetsOwnSite(a.href)
    /\ ~IsShareEndpoint(a.href)

\* C14: no entry of externalLinks is a same-page fragment, has an empty href
\* or empty visible text, or targets the source site's own domain (including
\* site-relative hrefs such as /p/other-post) or a social-share/subscription
\* endpoint; and every anchor of the cleaned content region that meets all
\* of these conditions appears in externalLinks.
C14_OnlyOutboundLinks ==
    pc = "extracted" =>
        LET links == xout[1].external_links
        IN  /\ \A k \in 1..Len(links) :
                  IsOutbound([href |-> links[k].url, text |-> links[k].text])
            /\ \A j \in 1..Len(CleanAnchors) :
                  IsOutbound(CleanAnchors[j]) =>
                      \E k \in 1..Len(links) : links[k].url = CleanAnchors[j].href

\* failing input of C14: a site-relative link in the content
C14_RelativeLinkCollected ==
    /\ pc = "extracted"
    /\ \E k \in 1..Len(xout[1].external_links) :
          xout[1].external_links[k].url = <<"/p/", "other-post">>

\* ---- C15
\* positions of the anchors that pass the filter and have the given href
QualifyingAt(url) ==
    {j \in 1..Len(CleanAnchors) :
        LinkQualifies(tool, CleanAnchors[j]) /\ CleanAnchors[j].href = url}

FirstAt(url) == CHOOSE j \in QualifyingAt(url) : \A m \in QualifyingAt(url) : j <= m

\* C15: externalLinks never contains two entries with the same url; for each
\* href the entry kept is the first qualifying anchor in document order (its
\* text is used), and the entries are ordered by first occurrence.
C15_LinksUniqueFirstWins ==
    pc = "extracted" =>
        LET links == xout[1].external_links
        IN  /\ \A k, m \in 1..Len(links) : k # m => links[k].url # links[m].url
            /\ \A k \in 1..Len(links) :
                  /\ QualifyingAt(links[k].url) # {}
                  /\ links[k].text = CleanAnchors[FirstAt(links[k].url)].text
            /\ \A k, m \in 1..Len(links) :
                  (k < m /\ QualifyingAt(links[k].url) # {}
                         /\ QualifyingAt(links[m].url) # {})
                      => FirstAt(links[k].url) < FirstAt(links[m].url)

\* the same href twice with different texts: one entry, with the first text
C15_Witness ==
    /\ pc = "extracted"
    /\ Len(CleanAnchors) >= 2
    /\ CleanAnchors[1].href = CleanAnchors[2].href
    /\ CleanAnchors[1].text # CleanAnchors[2].text
    /\ LinkQualifies(tool, CleanAnchors[1])
    /\ LinkQualifies(tool, CleanAnchors[2])
    /\ Len(xout[1].external_links) = 1
    /\ xout[1].external_links[1].text = CleanAnchors[1].text

\* ---- C16
\* number of headings and paragraphs, at any depth, whose own text matches no
\* sponsor pattern
RECURSIVE PlainElements(_)
PlainElements(nodes) ==
    IF nodes = << >> THEN 0
    ELSE LET n == Head(nodes)
         IN  (IF n.tag \in {"p", "h1", "h2", "h3", "h4", "h5", "h6"}
                    /\ ~MatchesSponsor(n.text)
              THEN 1 ELSE 0)
             + PlainElements(n.children) + PlainElements(Tail(nodes))

Occurrences(text, tok) == Cardinality({k \in 1..Len(text) : text[k] = tok})

\* C16: sponsor stripping removes exactly the headings and paragraphs whose
\* text matches a sponsor pattern: no such element leaves a trace in the
\* body, and every heading or paragraph whose own text matches no pattern is
\* still there afterwards, for both sites, also when it shares an enclosing
\* div with a sponsor paragraph.
C16_SponsorStrippingExact ==
    pc = "extracted" =>
        LET region == StripNoise(tool, xin[1].html.content)
            body == xout[1].content_markdown
        IN  /\ \A k \in 1..Len(body) :
                  body[k] \notin {"Presented by ", "SPONSORED BY "}
            /\ Occurrences(body, "Real story") = PlainElements(region)

\* failing input of C16: a div with a sponsor paragraph and a plain one
C16_DivRemovedWhole ==
    /\ pc = "extracted"
    /\ tool = "superhuman"
    /\ xin[1].html.content =
          <<Div(<<Leaf("p", "", <<"Presented by ", "Acme Corp">>, << >>),
                  Leaf("p", "", <<"Real story">>, << >>)>>)>>
    /\ xout[1].content_markdown = << >>

\* ---- C17
\* at most count listing pages were fetched, and the k-th fetch asked for
\* page k: the site root first, then archive pages 2, 3, ...
PagesInOrder ==
    /\ Len(ListingEvents) <= count
    /\ \A k \in 1..Len(ListingEvents) :
          ListingEvents[k].url =
              (IF k = 1 THEN <<"https://www.superhuman.ai">>
               ELSE <<"https://www.superhuman.ai", "/archive?page=", Str(k)>>)

CollectReturned == pc \notin {"listing", "pageDelay"}

\* C17: for every count >= 1 and every archive behaviour in which each page
\* fetch returns (also an archive that serves the same non-empty page for
\* every page number), collectListings terminates, and it fetches at most
\* count listing pages, numbered 1, 2, 3, ... in order, none skipped or
\* repeated.
C17_PaginatorTerminates == []PagesInOrder /\ <>CollectReturned

\* the archive served the same one-reference page count times
C17_Witness ==
    /\ CollectReturned
    /\ count >= 2
    /\ Len(ListingEvents) = count
    /\ Len(all) = count
    /\ \A k \in 1..Len(all) : all[k].url = all[1].url

====
